---- MODULE Spec2Model ----
(***************************************************************************)
(* The conversation orchestration of AOUNet (src/graph/graph.py): the      *)
(* entry router, the retrieval / call_llm / tool_handler loop and          *)
(* cleanup_state, run by LangGraph over the AgentState schema.             *)
(*                                                                         *)
(* The graph state is a dictionary holding one entry per declared channel  *)
(* of AgentState.  A node returns an update dictionary; the framework      *)
(* keeps the entries whose key is a declared channel, merges "messages"    *)
(* with the add_messages reducer (MessagesState) and overwrites the other  *)
(* channels.                                                               *)
(***************************************************************************)
EXTENDS Integers, Sequences, FiniteSets, TLC

VARIABLES
    pc,          \* the node about to run ("idle" between exchanges)
    state,       \* the graph state of the exchange in flight (a dictionary)
    persisted,   \* the thread's checkpoint, written when an exchange completes
    next_id,     \* source of fresh message identifiers (uuid4 / model run ids)
    exchanges,   \* exchanges started on the thread
    rounds,      \* history: tool_handler runs of this exchange
    invoked,     \* history: tool.invoke calls per registered tool, this exchange
    th_calls,    \* history: the tool_calls the last tool_handler run was given
    th_ret,      \* history: the dictionary the last tool_handler run returned
    th_trace,    \* history: one entry per tool_call of the last tool_handler run
    succeeded,   \* history: successful dispatches per requested name, this exchange
    io,          \* history: what the user sent and the model's last answer, this exchange
    last_node,   \* history: the node that ran last
    outcome,     \* the exchange: "none", "running", "completed", "failed"
    rr,          \* the last call of the reranker (used by SpecRerank only)
    threads,     \* per thread id: the exchange in flight (used by SpecThreads only)
    store,       \* per thread id: the persisted thread (used by SpecThreads only)
    cl           \* the last call of cleanup_state on its own (used by SpecCleanup only)

\* the history variables of an exchange
hist == <<rounds, invoked, th_calls, th_ret, th_trace, succeeded, io>>

\* the variables of the other specifications
aside == <<rr, threads, store, cl>>

vars == <<pc, state, persisted, next_id, exchanges, hist, last_node, outcome, aside>>

----------------------------------------------------------------------------
\* Bounds of the model.

\* tool requests in one assistant turn
MaxReqs == 3
\* message identifiers handed out over the life of the thread
MaxId == 9

----------------------------------------------------------------------------
\* Python dictionaries: functions with a finite domain of keys.

EmptyDict == [k \in {} |-> 0]

DictGet(d, k, default) == IF k \in DOMAIN d THEN d[k] ELSE default

DictSet(d, k, v) == [x \in (DOMAIN d) \cup {k} |-> IF x = k THEN v ELSE d[x]]

----------------------------------------------------------------------------
\* Messages.  content is the sequence of the pieces an f-string joins, so a
\* literal text is a one-piece sequence and "" is <<"">>.

HumanMessage(id, text) ==
    [id |-> id, type |-> "human", content |-> <<text>>,
     tool_calls |-> <<>>, tool_call_id |-> 0]

AIMessage(id, text, calls) ==
    [id |-> id, type |-> "ai", content |-> <<text>>,
     tool_calls |-> calls, tool_call_id |-> 0]

ToolMessage(id, content, tool_call_id) ==
    [id |-> id, type |-> "tool", content |-> content,
     tool_calls |-> <<>>, tool_call_id |-> tool_call_id]

SystemMessage(id, text) ==
    [id |-> id, type |-> "system", content |-> <<text>>,
     tool_calls |-> <<>>, tool_call_id |-> 0]

RemoveMessage(id) ==
    [id |-> id, type |-> "remove", content |-> <<"">>,
     tool_calls |-> <<>>, tool_call_id |-> 0]

\* the text of a message whose content is one literal
Text(m) == m.content[1]

----------------------------------------------------------------------------
\* AgentState(MessagesState): the declared channels.  graph.py reads
\* state["retrieval_result"] and state["query"], the two fields of the
\* packaged schema; neither version of the schema declares tool_call_count
\* or max_tool_calls_per_tool.

\* a schema that declares the counter as a field of the state
AgentStateChannelsWithCounter ==
    {"messages", "retrieval_result", "query", "tool_call_count"}

AgentStateChannels == {"messages", "retrieval_result", "query"}

IndexOfId(msgs, id) ==
    IF \E i \in 1..Len(msgs) : msgs[i].id = id
    THEN CHOOSE i \in 1..Len(msgs) : msgs[i].id = id
    ELSE 0

\* The reducer of the "messages" channel: a message of the update whose id
\* is already in the history replaces that message in place (a RemoveMessage
\* deletes it), any other message is appended.
\* one message m of the update merged into the history: the history and the
\* ids to delete afterwards
MergeOne(merged, m, removed) ==
    LET idx == IndexOfId(merged, m.id)
    IN  IF idx # 0
        THEN IF m.type = "remove"
             THEN [merged |-> merged, removed |-> removed \cup {m.id}]
             ELSE [merged |-> [merged EXCEPT ![idx] = m], removed |-> removed \ {m.id}]
        ELSE IF m.type = "remove"
             THEN [merged |-> merged, removed |-> removed]
             ELSE [merged |-> Append(merged, m), removed |-> removed]

\* The rest of the update, right, merged into the history; removed holds the
\* ids to delete at the end.  The arguments are bound as values (a, r, b)
\* before they are used.
RECURSIVE MergeById(_, _, _)
MergeById(merged, right, removed) ==
    CHOOSE out \in UNION {
        IF r = <<>>
        THEN {SelectSeq(a, LAMBDA m : m.id \notin b)}
        ELSE {MergeById(one.merged, Tail(r), one.removed) :
                 one \in {MergeOne(a, Head(r), b)}} :
        a \in {merged}, r \in {right}, b \in {removed}} : TRUE

\* a reducer that appends the update whatever its ids
add_messages_appending(left, right) == left \o right

add_messages(left, right) == MergeById(left, right, {})

\* What the framework does with the dictionary a node returns.
ApplyUpdateOf(st, upd) ==
    LET keys == (DOMAIN st) \cup ((DOMAIN upd) \cap AgentStateChannels)
    IN  [k \in keys |->
            IF k \in DOMAIN upd
            THEN IF k = "messages"
                 THEN add_messages(DictGet(st, "messages", <<>>), upd[k])
                 ELSE upd[k]
            ELSE st[k]]

ApplyUpdate(st, upd) ==
    CHOOSE out \in {ApplyUpdateOf(s, u) : s \in {st}, u \in {upd}} : TRUE

Messages(st) == DictGet(st, "messages", <<>>)

Last(s) == s[Len(s)]

----------------------------------------------------------------------------
\* Tools.

\* tools = [search_aou_site]
tools == <<"search_aou_site">>

\* the tool names a model turn may request: the registered name, the same
\* name in another letter case, and a name that is not registered
RequestNames == {"search_aou_site", "SEARCH_AOU_SITE", "lookup_grades"}

\* str.lower() on the names above
lower(s) == IF s = "SEARCH_AOU_SITE" THEN "search_aou_site" ELSE s

\* str(n) for the counts a warning can print
ToStr(n) == <<"0", "1", "2", "3", "4", "5", "6", "7", "8", "9">>[n + 1]

\* state.get('max_tool_calls_per_tool', 2): the default
DefaultMaxCalls == 2

\* what tool.invoke(args) can do
ToolOutcomes == {"returns", "raises"}

\* the lookup falling back to the first tool instead of None
FindToolDefaultFirst(name) ==
    LET hits == {i \in 1..Len(tools) : lower(tools[i]) = lower(name)}
    IN  IF hits = {} THEN tools[1]
        ELSE tools[CHOOSE i \in hits : \A j \in hits : i <= j]

\* a lookup that compares the names as they are spelled
FindToolExact(name) ==
    LET hits == {i \in 1..Len(tools) : tools[i] = name}
    IN  IF hits = {} THEN "None"
        ELSE tools[CHOOSE i \in hits : \A j \in hits : i <= j]

\* next((t for t in tools if t.name.lower() == name.lower()), None)
FindTool(name) ==
    LET hits == {i \in 1..Len(tools) : lower(tools[i]) = lower(name)}
    IN  IF hits = {} THEN "None"
        ELSE tools[CHOOSE i \in hits : \A j \in hits : i <= j]

NotFoundText(name) == <<"Error: Tool '", name, "' not found">>

CapWarningText(name, count) ==
    <<"Warning: Tool '", name, "' has already been called ", ToStr(count),
      " times. Maximum calls reached. Please provide an answer with the information you have.">>

\* the error text without the tool's name
ToolErrorTextBare(name) ==
    <<"Error executing tool: ", "tool failure",
      ". Please try again with different parameters.">>

ToolErrorText(name) ==
    <<"Error executing tool '", name, "': ", "tool failure",
      ". Please try again with different parameters.">>

ToolResultText == <<"search results">>

\* the cap compared with > instead of >=
CapReachedStrict(current_count, max_calls) == current_count > max_calls

\* if current_count >= max_calls
CapReached(current_count, max_calls) == current_count >= max_calls

\* tool_call_count[tool_call["name"]] = current_count + 1
\* the count kept under the lower-case name
IncrementLowered(count, tool_call, current_count) ==
    DictSet(count, lower(tool_call.name), current_count + 1)

\* tool_call_count[tool_call["name"]] = current_count + 1
Increment(count, tool_call, current_count) ==
    DictSet(count, tool_call.name, current_count + 1)

\* The four ways the body of the for loop of tool_handler can end for one
\* tool_call.  Each gives the ToolMessage appended to result, the local
\* tool_call_count afterwards and, as history, the branch taken and the
\* tool.invoke calls made (0 or 1).

\* the unknown tool skipped without a ToolMessage
NotFoundBranchSilent(tool_call, count) ==
    [branch |-> "not_found", calls |-> 0, count |-> count, appended |-> <<>>]

\* if tool is None: ... continue
NotFoundBranch(tool_call, count) ==
    [branch |-> "not_found", calls |-> 0, count |-> count,
     appended |-> <<ToolMessage(0, NotFoundText(tool_call.name), tool_call.id)>>]

\* if current_count >= max_calls: ... continue
CappedBranch(tool_call, count, current_count) ==
    [branch |-> "capped", calls |-> 0, count |-> count,
     appended |-> <<ToolMessage(0, CapWarningText(tool_call.name, current_count),
                                tool_call.id)>>]

\* tool.invoke raised: except Exception as e
ErrorBranch(tool_call, count) ==
    [branch |-> "error", calls |-> 1, count |-> count,
     appended |-> <<ToolMessage(0, ToolErrorText(tool_call.name), tool_call.id)>>]

\* tool.invoke returned: count, coerce to str, append
OkBranch(tool_call, count, current_count) ==
    [branch |-> "ok", calls |-> 1,
     count |-> Increment(count, tool_call, current_count),
     appended |-> <<ToolMessage(0, ToolResultText, tool_call.id)>>]

\* The body of the for loop for one tool_call, count being the local
\* tool_call_count and out what tool.invoke does if it is called.
Dispatch(tool_call, out, count, max_calls) ==
    LET tool == FindTool(tool_call.name)
        current_count == DictGet(count, tool_call.name, 0)
    IN  IF tool = "None" THEN NotFoundBranch(tool_call, count)
        ELSE IF CapReached(current_count, max_calls)
        THEN CappedBranch(tool_call, count, current_count)
        ELSE IF out = "raises" THEN ErrorBranch(tool_call, count)
        ELSE OkBranch(tool_call, count, current_count)

\* The for loop of tool_handler over calls[i..], the i-th tool.invoke ending
\* as outs[i].  acc carries result and tool_call_count (the locals of the
\* handler) and, as history, one trace entry per tool_call.
\* one pass of the loop body: the locals after tool_call i, from the locals a
\* before it
LoopBody(calls, outs, max_calls, i, a) ==
    {[result |-> a.result \o d.appended,
      count  |-> d.count,
      trace  |-> Append(a.trace,
                    [name |-> calls[i].name, id |-> calls[i].id,
                     branch |-> d.branch, calls |-> d.calls,
                     before |-> a.count, after |-> d.count,
                     appended |-> d.appended])] :
        d \in {Dispatch(calls[i], outs[i], a.count, max_calls)}}

RECURSIVE ToolLoop(_, _, _, _, _)
ToolLoop(calls, outs, max_calls, i, acc) ==
    IF i > Len(calls) THEN acc
    ELSE ToolLoop(calls, outs, max_calls, i + 1,
                  CHOOSE next \in UNION {LoopBody(calls, outs, max_calls, i, a) :
                                            a \in {acc}} : TRUE)

NoInvocations == [t \in {tools[i] : i \in 1..Len(tools)} |-> 0]

\* tool_handler(state), with the outcome of every tool.invoke it may make
RunToolHandler(st, outs) ==
    ToolLoop(Last(Messages(st)).tool_calls, outs,
             DictGet(st, "max_tool_calls_per_tool", DefaultMaxCalls), 1,
             [result |-> <<>>,
              count  |-> DictGet(st, "tool_call_count", EmptyDict),
              trace  |-> <<>>])

\* the dictionary tool_handler returns
tool_handler(st, outs) ==
    LET r == RunToolHandler(st, outs)
    IN  [messages |-> r.result, tool_call_count |-> r.count]

\* id-less messages of one update all given the same id
AssignIdsSame(msgs, base) ==
    [i \in 1..Len(msgs) |->
        IF msgs[i].id = 0 THEN [msgs[i] EXCEPT !.id = base] ELSE msgs[i]]

\* add_messages gives every message that has no id a fresh one
AssignIds(msgs, base) ==
    [i \in 1..Len(msgs) |->
        IF msgs[i].id = 0 THEN [msgs[i] EXCEPT !.id = base + i - 1] ELSE msgs[i]]

WithIds(upd, base) ==
    IF "messages" \in DOMAIN upd
    THEN [upd EXCEPT !["messages"] = AssignIds(upd["messages"], base)]
    ELSE upd

----------------------------------------------------------------------------
\* Inputs of an exchange.

\* what the user may type ("" is an empty query)
UserTexts == {"Hello", ""}

\* the text of a model turn that carries no tool request
AnswerTexts == {"The answer.", "reasoning: check the site"}

\* AgentRouterSchema.classification
Classifications == {"info", "normal"}

\* a router that sends every exchange to the retrieval loop
goto_graph(classification) == "retrieval"

\* agent_router: goto is 'graph', whose first node is retrieval, for 'info'
\* and 'normal_llm' otherwise
goto(classification) ==
    IF classification = "info" THEN "retrieval" ELSE "normal_llm"

\* the tool names of one model turn: 1..MaxReqs requests
ToolCallLists ==
    UNION {[1..n -> RequestNames] : n \in 1..MaxReqs}

MakeCalls(names, msg_id) ==
    [i \in 1..Len(names) |-> [name |-> names[i], id |-> 10 * msg_id + i]]

\* str.strip() on the texts of the model
strip(s) ==
    IF s = " " THEN ""
    ELSE IF s = " The answer. " THEN "The answer."
    ELSE s

\* str.startswith("reasoning:") on the texts of the model
startswith_reasoning(s) == s = "reasoning: check the site"

----------------------------------------------------------------------------
\* Node functions of graph.py, each as the update dictionary it returns.

\* retrieval that gives up on the collections after the first that raises
retrieval_stops_at_error(st, q_a, pdf) ==
    LET query == Text(Last(Messages(st)))
    IN  IF query = ""
        THEN [retrieval_result |-> <<>>, query |-> "", messages |-> Messages(st)]
        ELSE [retrieval_result |->
                 IF q_a = "raises" THEN <<>>
                 ELSE <<"q_a document">>
                      \o (IF pdf = "raises" THEN <<>> ELSE <<"pdf document">>),
              query |-> query,
              messages |-> Messages(st)]

\* retrieval: the outcomes of the collection.query calls it makes, none with
\* an empty query
queried(st, q_a, pdf) ==
    IF Text(Last(Messages(st))) = "" THEN <<>> ELSE <<q_a, pdf>>

\* retrieval(state): q_a and pdf name what each collection's query did
retrieval(st, q_a, pdf) ==
    LET query == Text(Last(Messages(st)))
        docs(c, how) == IF how = "raises" THEN <<>> ELSE <<c>>
    IN  IF query = ""
        THEN [retrieval_result |-> <<>>, query |-> "", messages |-> Messages(st)]
        ELSE [retrieval_result |-> docs("q_a document", q_a) \o docs("pdf document", pdf),
              query |-> query,
              messages |-> Messages(st)]

\* call_llm: the system message built from the query, the retrieved
\* documents and the contents of the tool messages of the history (each by
\* its leading piece)
system_message(st) ==
    LET IsTool(m) == m.type = "tool"
        tool_results == SelectSeq(Messages(st), IsTool)
    IN  [SystemMessage(0, st["query"]) EXCEPT
            !.content = <<st["query"], "=== Retrieved Documents ===">>
                        \o st["retrieval_result"]
                        \o (IF tool_results = <<>> THEN <<>>
                            ELSE <<"=== Additional Search Results ===">>
                                 \o [i \in 1..Len(tool_results) |-> Text(tool_results[i])])]

\* call_llm: what llm_with_tools.invoke is given
call_llm_input(st) == Messages(st) \o <<system_message(st)>>

\* call_llm that returns the system message with the response
call_llm_storing(st, response) == [messages |-> <<system_message(st), response>>]

\* call_llm(state) with the model's response
call_llm(st, response) == [messages |-> <<response>>]

\* normal_llm: what llm.invoke is given
normal_llm_input(st) == Messages(st)

\* normal_llm(state) with the model's response
normal_llm(st, response) == [messages |-> <<response>>]

\* a router that ends the graph on a final answer without cleanup
should_continue_ends(st) ==
    IF Last(Messages(st)).tool_calls = <<>> THEN "end" ELSE "tool_handler"

\* a router that stops the loop after two tool rounds of the exchange
should_continue_capped(st) ==
    LET msgs == Messages(st)
        humans == {i \in 1..Len(msgs) : msgs[i].type = "human"}
        from == IF humans = {} THEN 0 ELSE CHOOSE i \in humans : \A j \in humans : i >= j
        asked == {i \in (from + 1)..Len(msgs) :
                     msgs[i].type = "ai" /\ msgs[i].tool_calls # <<>>}
    IN  IF Last(msgs).tool_calls = <<>> \/ Cardinality(asked) > 2
        THEN "cleanup_state" ELSE "tool_handler"

\* a router with its two answers exchanged
should_continue_swapped(st) ==
    IF Last(Messages(st)).tool_calls = <<>> THEN "tool_handler" ELSE "cleanup_state"

\* should_continue(state)
should_continue(st) ==
    IF Last(Messages(st)).tool_calls = <<>> THEN "cleanup_state" ELSE "tool_handler"

\* cleanup_state: the first HumanMessage met from the front of the history
FirstHuman(msgs) ==
    LET hits == {i \in 1..Len(msgs) : msgs[i].type = "human"}
    IN  IF hits = {} THEN <<>>
        ELSE <<msgs[CHOOSE i \in hits : \A j \in hits : i <= j]>>

\* the first, not the last, AIMessage with text that is no reasoning marker
FinalAIFirst(msgs) ==
    LET ok(m) == /\ m.type = "ai"
                 /\ Text(m) # ""
                 /\ strip(Text(m)) # ""
                 /\ ~startswith_reasoning(Text(m))
        hits == {i \in 1..Len(msgs) : ok(msgs[i])}
    IN  IF hits = {} THEN <<>>
        ELSE <<msgs[CHOOSE i \in hits : \A j \in hits : i <= j]>>

\* cleanup_state: the last AIMessage with text that is no reasoning marker
FinalAI(msgs) ==
    LET ok(m) == /\ m.type = "ai"
                 /\ Text(m) # ""
                 /\ strip(Text(m)) # ""
                 /\ ~startswith_reasoning(Text(m))
        hits == {i \in 1..Len(msgs) : ok(msgs[i])}
    IN  IF hits = {} THEN <<>>
        ELSE <<msgs[CHOOSE i \in hits : \A j \in hits : i >= j]>>

\* cleanup that removes every message it does not keep
cleanup_state_pruning(st) ==
    LET msgs == Messages(st)
        kept == FirstHuman(msgs) \o FinalAI(msgs)
        keptIds == {kept[i].id : i \in 1..Len(kept)}
        Dropped(m) == m.id \notin keptIds
        dropped == SelectSeq(msgs, Dropped)
    IN  [messages |-> [i \in 1..Len(dropped) |-> RemoveMessage(dropped[i].id)] \o kept,
         retrieval_result |-> <<>>,
         query |-> ""]

\* cleanup that returns fresh copies of the two messages it keeps
cleanup_state_copies(st) ==
    LET kept == FirstHuman(Messages(st)) \o FinalAI(Messages(st))
    IN  [messages |-> [i \in 1..Len(kept) |-> [kept[i] EXCEPT !.id = 0]],
         retrieval_result |-> <<>>,
         query |-> ""]

\* cleanup that removes the assistant turns that requested tools
cleanup_state_dropping_requests(st) ==
    LET msgs == Messages(st)
        Requesting(m) == m.type = "ai" /\ m.tool_calls # <<>>
        dropped == SelectSeq(msgs, Requesting)
    IN  [messages |-> [i \in 1..Len(dropped) |-> RemoveMessage(dropped[i].id)]
                      \o FirstHuman(msgs) \o FinalAI(msgs),
         retrieval_result |-> <<>>,
         query |-> ""]

\* cleanup that also clears the counter
cleanup_state_resetting(st) ==
    [messages |-> FirstHuman(Messages(st)) \o FinalAI(Messages(st)),
     retrieval_result |-> <<>>,
     query |-> "",
     tool_call_count |-> EmptyDict]

\* cleanup_state(state)
cleanup_state(st) ==
    [messages |-> FirstHuman(Messages(st)) \o FinalAI(Messages(st)),
     retrieval_result |-> <<>>,
     query |-> ""]

----------------------------------------------------------------------------
\* The parts of the assistant that app.py drives through get_agent and that
\* graph.py does not hold: the standing directive and the thread store.

DIRECTIVE == "You are the AOU assistant."

HasDirective(msgs) == \E i \in 1..Len(msgs) : msgs[i].type = "system"

\* directive injection: on a thread without a directive, the bare first
\* user message is removed and [Directive, UserTurn] added in one update
inject_directive(st, base) ==
    LET msgs == Messages(st)
    IN  IF HasDirective(msgs) \/ msgs = <<>>
        THEN [messages |-> <<>>]
        ELSE [messages |-> <<RemoveMessage(msgs[1].id),
                             SystemMessage(base, DIRECTIVE),
                             HumanMessage(base + 1, Text(msgs[1]))>>]

----------------------------------------------------------------------------
\* The context reranker (RetrieveMessageReranked is its typed result; the
\* function itself is not in graph.py).

\* what the structured classifier can do with one request
ClassifierOutcomes == {"raises", "malformed", "typed"}

RerankQueries == {"TM354 tutor", "admission dates", "library hours"}

RerankRawOutputs == {"", "doc A", "doc A\ndoc B", "doc A\ndoc A\ndoc C"}

\* RetrieveMessageReranked.messages for a raw output
Statements(raw) ==
    IF raw = "" THEN <<>>
    ELSE IF raw = "doc A" THEN <<"A">>
    ELSE IF raw = "doc A\ndoc B" THEN <<"A", "B">>
    ELSE <<"A", "C">>

\* a reranker that gives an empty list when the classifier fails
rerank_drops_raw(query, raw_output, classifier) ==
    [kind |-> "messages", raw |-> "",
     messages |-> IF classifier = "typed" THEN Statements(raw_output) ELSE <<>>]

\* rerank(query, raw_output): the cleaned list, or the raw output unchanged
\* when the classifier raises or its result is malformed
rerank(query, raw_output, classifier) ==
    IF classifier = "typed"
    THEN [kind |-> "messages", raw |-> "", messages |-> Statements(raw_output)]
    ELSE [kind |-> "raw", raw |-> raw_output, messages |-> <<>>]

NoRerank ==
    [query |-> "", raw_output |-> "", classifier |-> "none", calls |-> 0,
     result |-> [kind |-> "none", raw |-> "", messages |-> <<>>]]

----------------------------------------------------------------------------
\* Threads.  app.py gives every session its own thread_id and passes it in
\* the config of every call of the assistant; the store behind it is keyed
\* by that id.

\* st.session_state.thread_id of two sessions
ThreadIds == {"t1", "t2"}

\* message ids made for one thread
MaxThreadIds == 6

\* the ids of the messages made for a thread are its own: FirstId(t) + 1,
\* FirstId(t) + 2, ...
FirstId(thread_id) == IF thread_id = "t1" THEN 0 ELSE 100

\* a thread with no exchange in flight: the node about to run, the state of
\* the exchange, the number of message ids made for the thread, and the
\* tool_call_count the last tool_handler run of the exchange returned
NoThread == [pc |-> "idle", state |-> EmptyDict, made |-> 0, count |-> EmptyDict]

\* a store that hands every thread the state of the first one
load_thread_shared(st, thread_id) == st["t1"]

\* get_state(config): the persisted state of the thread the config names
load_thread(st, thread_id) == st[thread_id]

\* persist at the exit of an exchange
save_thread(st, thread_id, value) == [st EXCEPT ![thread_id] = value]

----------------------------------------------------------------------------
\* The state machine.

NoCleanup ==
    [called |-> FALSE, messages |-> <<>>, kept |-> <<>>,
     once |-> EmptyDict, twice |-> EmptyDict]

NoIO ==
    [sent |-> "none", answer |-> "none", classification |-> "none",
     input |-> <<>>, queried |-> <<>>]

Init ==
    /\ pc = "idle"
    /\ state = EmptyDict
    /\ persisted = EmptyDict
    /\ next_id = 1
    /\ exchanges = 0
    /\ rounds = 0
    /\ invoked = NoInvocations
    /\ th_calls = <<>>
    /\ th_ret = EmptyDict
    /\ th_trace = <<>>
    /\ succeeded = EmptyDict
    /\ io = NoIO
    /\ last_node = "none"
    /\ outcome = "none"
    /\ rr = NoRerank
    /\ threads = [t \in ThreadIds |-> NoThread]
    /\ store = [t \in ThreadIds |-> EmptyDict]
    /\ cl = NoCleanup

\* identifiers an exchange needs at least: the user message, the directive
\* pair on a thread without one, and the model's answer
StartCost(st) == IF HasDirective(Messages(st)) THEN 1 ELSE 3

NoHistory ==
    /\ rounds' = 0
    /\ invoked' = NoInvocations
    /\ th_calls' = <<>>
    /\ th_ret' = EmptyDict
    /\ th_trace' = <<>>
    /\ succeeded' = EmptyDict

NoExchange ==
    /\ NoHistory
    /\ io' = NoIO

\* a handler that takes a prompt whatever the previous one is doing
PromptTakenAnytime == TRUE

\* the script of app.py handles one prompt per run, from `if prompt:` to its
\* last line: the next prompt is taken when no exchange is running
PromptTaken == pc = "idle"

\* a new user message arrives: the thread is loaded and the message added
StartExchange ==
    /\ PromptTaken
    /\ next_id + StartCost(persisted) <= MaxId
    /\ \E text \in UserTexts :
          /\ state' = ApplyUpdate(persisted,
                         [messages |-> <<HumanMessage(next_id, text)>>])
          /\ io' = [sent |-> text, answer |-> "none", classification |-> "none",
                    input |-> <<>>, queried |-> <<>>]
    /\ next_id' = next_id + 1
    /\ exchanges' = exchanges + 1
    /\ pc' = "inject_directive"
    /\ last_node' = "start"
    /\ outcome' = "running"
    /\ NoHistory
    /\ UNCHANGED <<persisted, aside>>

InjectDirective ==
    /\ pc = "inject_directive"
    /\ state' = ApplyUpdate(state, inject_directive(state, next_id))
    /\ next_id' = next_id + (IF HasDirective(Messages(state)) THEN 0 ELSE 2)
    /\ pc' = "agent_router"
    /\ last_node' = "inject_directive"
    /\ UNCHANGED <<persisted, exchanges, hist, outcome, aside>>

\* a failing exchange that persists what it had built so far
ExchangeFailsPersisting ==
    /\ pc' = "idle"
    /\ persisted' = state
    /\ outcome' = "failed"
    /\ last_node' = "none"
    /\ NoExchange
    /\ UNCHANGED <<state, next_id, exchanges, aside>>

\* a model invocation raised: the exchange fails, nothing is persisted
ExchangeFails ==
    /\ pc' = "idle"
    /\ state' = persisted
    /\ outcome' = "failed"
    /\ last_node' = "none"
    /\ NoExchange
    /\ UNCHANGED <<persisted, next_id, exchanges, aside>>

\* agent_router: Command(goto=..., update=state)
AgentRouter ==
    /\ pc = "agent_router"
    /\ \/ /\ \E classification \in Classifications :
                /\ pc' = goto(classification)
                /\ io' = [io EXCEPT !.classification = classification]
          /\ state' = ApplyUpdate(state, state)
          /\ last_node' = "agent_router"
          /\ UNCHANGED <<persisted, next_id, exchanges, rounds, invoked, th_calls,
                         th_ret, th_trace, succeeded, outcome, aside>>
       \/ ExchangeFails

\* retrieval; with a query, get_q_a_collection or get_pdf_collection may
\* raise before the loop over the collections, and the exchange fails
Retrieval ==
    /\ pc = "retrieval"
    /\ \/ /\ \E q_a \in ToolOutcomes, pdf \in ToolOutcomes :
                /\ state' = ApplyUpdate(state, retrieval(state, q_a, pdf))
                /\ io' = [io EXCEPT !.queried = queried(state, q_a, pdf)]
          /\ pc' = "call_llm"
          /\ last_node' = "retrieval"
          /\ UNCHANGED <<persisted, next_id, exchanges, rounds, invoked, th_calls,
                         th_ret, th_trace, succeeded, outcome, aside>>
       \/ /\ Text(Last(Messages(state))) # ""
          /\ ExchangeFails

\* the responses llm_with_tools.invoke may give
Responses(id) ==
    {AIMessage(id, text, <<>>) : text \in AnswerTexts}
    \cup {AIMessage(id, "", MakeCalls(names, id)) :
             names \in {l \in ToolCallLists : id + Len(l) + 1 <= MaxId}}

CallLLM ==
    /\ pc = "call_llm"
    /\ \/ /\ {"retrieval_result", "query"} \subseteq DOMAIN state
          /\ \E response \in Responses(next_id) :
                /\ state' = ApplyUpdate(state, call_llm(state, response))
                /\ io' = [io EXCEPT
                            !.input = call_llm_input(state),
                            !.answer = IF response.tool_calls = <<>>
                                       THEN Text(response) ELSE @]
          /\ next_id' = next_id + 1
          /\ pc' = should_continue(state')
          /\ last_node' = "call_llm"
          /\ UNCHANGED <<persisted, exchanges, rounds, invoked, th_calls,
                         th_ret, th_trace, succeeded, outcome, aside>>
       \/ ExchangeFails

\* successful dispatches per requested name after one more tool_handler run
AddSucceeded(done, trace) ==
    LET names == (DOMAIN done) \cup
                 {trace[i].name : i \in {j \in 1..Len(trace) : trace[j].branch = "ok"}}
    IN  [n \in names |->
            DictGet(done, n, 0)
            + Cardinality({i \in 1..Len(trace) :
                              trace[i].name = n /\ trace[i].branch = "ok"})]

\* tool.invoke calls per registered tool made by one tool_handler run
Invocations(trace) ==
    [t \in DOMAIN NoInvocations |->
        Cardinality({i \in 1..Len(trace) :
                        FindTool(trace[i].name) = t /\ trace[i].calls = 1})]

ToolHandler ==
    /\ pc = "tool_handler"
    /\ LET calls == Last(Messages(state)).tool_calls IN
       \E outs \in [1..Len(calls) -> ToolOutcomes] :
          \E r \in {RunToolHandler(state, outs)} :
          /\ state' = ApplyUpdate(state, WithIds(tool_handler(state, outs), next_id))
          /\ next_id' = next_id + Len(calls)
          /\ invoked' = [t \in DOMAIN invoked |->
                            invoked[t] + Invocations(r.trace)[t]]
          /\ succeeded' = AddSucceeded(succeeded, r.trace)
          /\ th_calls' = calls
          /\ th_ret' = tool_handler(state, outs)
          /\ th_trace' = r.trace
    /\ rounds' = rounds + 1
    /\ pc' = "call_llm"
    /\ last_node' = "tool_handler"
    /\ UNCHANGED <<persisted, exchanges, io, outcome, aside>>

CleanupState ==
    /\ pc = "cleanup_state"
    /\ state' = ApplyUpdate(state, WithIds(cleanup_state(state), next_id))
    /\ next_id' = next_id + Cardinality({i \in 1..Len(cleanup_state(state).messages) :
                                            cleanup_state(state).messages[i].id = 0})
    /\ pc' = "end"
    /\ last_node' = "cleanup_state"
    /\ UNCHANGED <<persisted, exchanges, hist, outcome, aside>>

NormalLLM ==
    /\ pc = "normal_llm"
    /\ \/ /\ \E text \in AnswerTexts :
                /\ state' = ApplyUpdate(state,
                               normal_llm(state, AIMessage(next_id, text, <<>>)))
                /\ io' = [io EXCEPT !.input = normal_llm_input(state), !.answer = text]
          /\ next_id' = next_id + 1
          /\ pc' = "end"
          /\ last_node' = "normal_llm"
          /\ UNCHANGED <<persisted, exchanges, rounds, invoked, th_calls,
                         th_ret, th_trace, succeeded, outcome, aside>>
       \/ ExchangeFails

\* the exchange is complete: the thread is persisted
Persist ==
    /\ pc = "end"
    /\ persisted' = state
    /\ outcome' = "completed"
    /\ pc' = "idle"
    /\ last_node' = "none"
    /\ NoExchange
    /\ UNCHANGED <<state, next_id, exchanges, aside>>

Next ==
    \/ StartExchange
    \/ InjectDirective
    \/ AgentRouter
    \/ Retrieval
    \/ CallLLM
    \/ ToolHandler
    \/ CleanupState
    \/ NormalLLM
    \/ Persist

Spec == Init /\ [][Next]_vars

\* The graph runtime runs the next node as soon as the previous one has
\* returned: a node of the loop that can run does run.
SpecLive ==
    /\ Spec
    /\ WF_vars(CallLLM)
    /\ WF_vars(ToolHandler)
    /\ WF_vars(CleanupState)
    /\ WF_vars(Persist)

----------------------------------------------------------------------------
\* The reranker on its own: every call draws a query, a raw tool output and
\* what the classifier does.

\* calls of the reranker that are told apart
MaxRerankCalls == 3

RerankCall ==
    /\ \E q \in RerankQueries, raw \in RerankRawOutputs, c \in ClassifierOutcomes :
          rr' = [query |-> q, raw_output |-> raw, classifier |-> c,
                 calls |-> IF rr.calls < MaxRerankCalls THEN rr.calls + 1 ELSE rr.calls,
                 result |-> rerank(q, raw, c)]
    /\ UNCHANGED <<pc, state, persisted, next_id, exchanges, hist, last_node, outcome,
                   threads, store, cl>>

NextRerank == RerankCall

SpecRerank == Init /\ [][NextRerank]_vars

----------------------------------------------------------------------------
\* cleanup_state on its own: one call, on a history drawn from Histories.

\* messages of a drawn history
MaxHistory == 3

\* the kinds of message a history is drawn from
MessageKinds ==
    {"human", "ai_answer", "ai_spaced", "ai_blank", "ai_reasoning", "ai_tools", "tool"}

\* the message of a kind at position i of a history (its id is i)
MessageOf(kind, i) ==
    IF kind = "human" THEN HumanMessage(i, "Hello")
    ELSE IF kind = "ai_answer" THEN AIMessage(i, "The answer.", <<>>)
    ELSE IF kind = "ai_spaced" THEN AIMessage(i, " The answer. ", <<>>)
    ELSE IF kind = "ai_blank" THEN AIMessage(i, " ", <<>>)
    ELSE IF kind = "ai_reasoning" THEN AIMessage(i, "reasoning: check the site", <<>>)
    ELSE IF kind = "ai_tools" THEN AIMessage(i, "", MakeCalls(<<"search_aou_site">>, i))
    ELSE ToolMessage(i, ToolResultText, 10 * i)

Histories ==
    UNION {{[i \in 1..n |-> MessageOf(kinds[i], i)] : kinds \in [1..n -> MessageKinds]} :
              n \in 0..MaxHistory}

\* the thread after the cleanup_state node has run on it
CleanedThread(st) == ApplyUpdate(st, cleanup_state(st))

CleanupCall ==
    /\ ~cl.called
    /\ \E msgs \in Histories :
          cl' = [called |-> TRUE,
                 messages |-> msgs,
                 kept |-> cleanup_state([messages |-> msgs]).messages,
                 once |-> CleanedThread([messages |-> msgs]),
                 twice |-> CleanedThread(CleanedThread([messages |-> msgs]))]
    /\ UNCHANGED <<pc, state, persisted, next_id, exchanges, hist, last_node, outcome,
                   rr, threads, store>>

NextCleanup == CleanupCall

SpecCleanup == Init /\ [][NextCleanup]_vars

----------------------------------------------------------------------------
\* Two threads side by side: every step is one node of the graph run for one
\* thread, on the state of that thread's exchange.

\* What the node about to run makes of the state st of an exchange, given
\* the next free message id and the tool turns (lists of requested names)
\* the model may still take: the next node, the state after the update and
\* the number of ids used.
NodeResults(node, st, id, tool_turns) ==
    IF node = "inject_directive" THEN
        {[pc |-> "agent_router",
          state |-> ApplyUpdate(st, inject_directive(st, id)),
          used |-> IF HasDirective(Messages(st)) THEN 0 ELSE 2,
          count |-> EmptyDict]}
    ELSE IF node = "agent_router" THEN
        {[pc |-> goto(c),
          state |-> ApplyUpdate(st, st), used |-> 0, count |-> EmptyDict] :
            c \in Classifications}
    ELSE IF node = "retrieval" THEN
        {[pc |-> "call_llm",
          state |-> ApplyUpdate(st, retrieval(st, "returns", "returns")),
          used |-> 0, count |-> EmptyDict]}
    ELSE IF node = "call_llm" THEN
        {[pc |-> should_continue(ApplyUpdate(st, call_llm(st, r))),
          state |-> ApplyUpdate(st, call_llm(st, r)),
          used |-> 1, count |-> EmptyDict] :
            r \in {AIMessage(id, "The answer.", <<>>)}
                  \cup {AIMessage(id, "", MakeCalls(names, id)) : names \in tool_turns}}
    ELSE IF node = "tool_handler" THEN
        {[pc |-> "call_llm",
          state |-> ApplyUpdate(st, WithIds(tool_handler(st, outs), id)),
          used |-> Len(Last(Messages(st)).tool_calls),
          count |-> tool_handler(st, outs).tool_call_count] :
            outs \in [1..Len(Last(Messages(st)).tool_calls) -> ToolOutcomes]}
    ELSE IF node = "cleanup_state" THEN
        {[pc |-> "end", state |-> ApplyUpdate(st, cleanup_state(st)),
          used |-> 0, count |-> EmptyDict]}
    ELSE IF node = "normal_llm" THEN
        {[pc |-> "end",
          state |-> ApplyUpdate(st, normal_llm(st, AIMessage(id, "The answer.", <<>>))),
          used |-> 1, count |-> EmptyDict]}
    ELSE {}

\* query_assistant on thread t, which may use message ids up to budget: the
\* thread is loaded and the message added
ThreadStartIn(t, budget) ==
    /\ threads[t].pc = "idle"
    /\ threads[t].made + StartCost(load_thread(store, t)) + 1 <= budget
    /\ threads' = [threads EXCEPT ![t] =
                      [pc |-> "inject_directive",
                       state |-> ApplyUpdate(load_thread(store, t),
                                    [messages |-> <<HumanMessage(FirstId(t) + @.made + 1,
                                                                 "Hello")>>]),
                       made |-> @.made + 1,
                       count |-> EmptyDict]]
    /\ UNCHANGED <<pc, state, persisted, next_id, exchanges, hist, last_node,
                   outcome, rr, store, cl>>

ThreadStart(t) == ThreadStartIn(t, MaxThreadIds)

\* one node of the graph runs for thread t, the model drawing its tool turns
\* from tool_turns
ThreadStepIn(t, tool_turns) ==
    /\ \E r \in NodeResults(threads[t].pc, threads[t].state,
                             FirstId(t) + threads[t].made + 1, tool_turns) :
          threads' = [threads EXCEPT ![t] =
                         [pc |-> r.pc,
                          state |-> r.state,
                          made |-> @.made + r.used,
                          count |-> IF threads[t].pc = "tool_handler"
                                    THEN r.count ELSE @.count]]
    /\ UNCHANGED <<pc, state, persisted, next_id, exchanges, hist, last_node,
                   outcome, rr, store, cl>>

\* the tool turns that leave room for their results and an answer
TurnsWithin(t, turns, budget) ==
    {names \in turns : threads[t].made + Len(names) + 2 <= budget}

ThreadStep(t) ==
    ThreadStepIn(t, TurnsWithin(t, {<<name>> : name \in RequestNames}, MaxThreadIds))

\* a model invocation of thread t raised
ThreadFails(t) ==
    /\ threads[t].pc \in {"agent_router", "call_llm", "normal_llm"}
    /\ threads' = [threads EXCEPT ![t] =
                      [pc |-> "idle", state |-> load_thread(store, t),
                       made |-> @.made, count |-> EmptyDict]]
    /\ UNCHANGED <<pc, state, persisted, next_id, exchanges, hist, last_node,
                   outcome, rr, store, cl>>

\* the exchange of thread t is complete: its thread is persisted
ThreadPersist(t) ==
    /\ threads[t].pc = "end"
    /\ store' = save_thread(store, t, threads[t].state)
    /\ threads' = [threads EXCEPT ![t] = [@ EXCEPT !.pc = "idle", !.count = EmptyDict]]
    /\ UNCHANGED <<pc, state, persisted, next_id, exchanges, hist, last_node,
                   outcome, rr, cl>>

NextThreads ==
    \E t \in ThreadIds :
        \/ ThreadStart(t)
        \/ ThreadStep(t)
        \/ ThreadFails(t)
        \/ ThreadPersist(t)

SpecThreads == Init /\ [][NextThreads]_vars

----------------------------------------------------------------------------
\* One thread over several exchanges with tool rounds, to follow the
\* tool_call_count from exchange to exchange.

\* message ids made for the thread
MaxCounterIds == 11

CounterStart == ThreadStartIn("t1", MaxCounterIds)

CounterStep == ThreadStepIn("t1", TurnsWithin("t1", ToolCallLists, MaxCounterIds))

CounterPersist == ThreadPersist("t1")

NextCounter == CounterStart \/ CounterStep \/ CounterPersist

SpecCounter == Init /\ [][NextCounter]_vars

----------------------------------------------------------------------------
\* Properties.

CountOfType(msgs, type) == Cardinality({i \in 1..Len(msgs) : msgs[i].type = type})

\* the requests of the last tool_handler run
Requests == 1..Len(th_trace)

\* successful dispatches of request i's name in this exchange before request
\* i of the last tool_handler run was dispatched
SucceededBefore(i) ==
    DictGet(succeeded, th_trace[i].name, 0)
    - Cardinality({j \in i..Len(th_trace) :
                      th_trace[j].name = th_trace[i].name /\ th_trace[j].branch = "ok"})

\* C1: within one exchange no registered tool is invoked (tool.invoke
\* called) more often than the cap, whatever the model requests.
C1_InvocationsWithinCap ==
    \A t \in DOMAIN invoked : invoked[t] <= DefaultMaxCalls

\* C2: a request dispatched while the counter of its name is at or above the
\* cap gets the cap warning as its ToolResult, the tool is not invoked, and
\* the whole counter is left as it was.
C2_CapWarningLeavesCounter ==
    \A i \in Requests :
        LET e == th_trace[i]
            count == DictGet(e.before, e.name, 0)
        IN  (FindTool(e.name) # "None" /\ count >= DefaultMaxCalls)
            => /\ e.calls = 0
               /\ e.after = e.before
               /\ th_ret.messages[i] =
                      ToolMessage(0, CapWarningText(e.name, count), e.id)
               /\ th_ret.messages[i].content[Len(th_ret.messages[i].content)] =
                      " times. Maximum calls reached. Please provide an answer with the information you have."

\* C2 witness: a run of tool_handler in which a request met the cap.
C2_Witness ==
    \E i \in Requests :
        /\ th_trace[i].branch = "capped"
        /\ DictGet(th_trace[i].before, th_trace[i].name, 0) = DefaultMaxCalls

\* C3: counts accumulate over the dispatch rounds of an exchange: once two
\* requests for a name have been dispatched successfully in the exchange (in
\* this turn or an earlier one) the counter of the name is 2, and a further
\* request for it gets the cap warning and leaves the counter at 2.
C3_CountsAccumulate ==
    \A i \in Requests :
        SucceededBefore(i) >= DefaultMaxCalls
        => /\ DictGet(th_trace[i].before, th_trace[i].name, 0) = DefaultMaxCalls
           /\ th_trace[i].branch = "capped"
           /\ th_trace[i].after = th_trace[i].before

\* the messages of the thread that the running exchange added
OfExchange(msgs) ==
    LET old == {Messages(persisted)[k].id : k \in 1..Len(Messages(persisted))}
        Added(m) == m.id \notin old
    IN  SelectSeq(msgs, Added)

\* C4: after cleanup_state the thread holds, from the exchange that ran, at
\* most one UserTurn, at most one AssistantTurn and no ToolResult.
C4_CleanupBound ==
    last_node = "cleanup_state"
    => LET added == OfExchange(Messages(state))
       IN  /\ CountOfType(added, "human") <= 1
           /\ CountOfType(added, "ai") <= 1
           /\ CountOfType(added, "tool") = 0

\* a requested name that resolves to a registered tool
Registered(name) == \E k \in 1..Len(tools) : lower(tools[k]) = lower(name)

\* the piece of text occurs in the content of the message
Mentions(m, piece) == \E k \in 1..Len(m.content) : m.content[k] = piece

DirectiveFirstAndOnly(msgs) ==
    /\ msgs # <<>>
    /\ msgs[1].type = "system"
    /\ Text(msgs[1]) = DIRECTIVE
    /\ CountOfType(msgs, "system") = 1

\* C5: once an exchange has completed, and throughout an exchange after the
\* injection step, the history holds exactly one Directive and it is the
\* first message; injecting again into a history that has it changes nothing.
C5_DirectiveUnique ==
    /\ Messages(persisted) # <<>> => DirectiveFirstAndOnly(Messages(persisted))
    /\ pc \notin {"idle", "inject_directive"} => DirectiveFirstAndOnly(Messages(state))
    /\ HasDirective(Messages(state))
       => ApplyUpdate(state, inject_directive(state, next_id)) = state

\* C5 witness: the injection step has run again on a thread whose earlier
\* exchange went through the tool loop and cleanup_state and was persisted.
C5_Witness ==
    /\ last_node = "inject_directive"
    /\ CountOfType(Messages(persisted), "tool") > 0
    /\ CountOfType(Messages(state), "human") = 2

\* C6: tool_handler returns exactly one ToolResult per request of the last
\* AssistantTurn, in request order, each carrying the id of its request,
\* whichever branch the request took.
C6_OneResultPerRequest ==
    th_calls # <<>>
    => /\ Len(th_ret.messages) = Len(th_calls)
       /\ \A i \in 1..Len(th_calls) :
             /\ th_ret.messages[i].type = "tool"
             /\ th_ret.messages[i].tool_call_id = th_calls[i].id

\* C6 witness: one turn whose requests took three different branches.
C6_Witness ==
    Cardinality({th_trace[i].branch : i \in Requests}) >= 3

\* C7: a request naming a tool that is not registered is answered by a
\* ToolResult whose text names that tool; no tool is invoked, the counter is
\* unchanged, every request of the turn still gets its result and the
\* handler returns to call_llm.
C7_UnknownToolSafe ==
    /\ \A i \in Requests :
          ~Registered(th_calls[i].name)
          => /\ th_trace[i].calls = 0
             /\ th_trace[i].after = th_trace[i].before
             /\ Len(th_ret.messages) = Len(th_calls)
             /\ th_ret.messages[i].type = "tool"
             /\ th_ret.messages[i].tool_call_id = th_calls[i].id
             /\ th_ret.messages[i].content[1] = "Error: Tool '"
             /\ Mentions(th_ret.messages[i], th_calls[i].name)
    /\ last_node = "tool_handler" => pc = "call_llm"

\* C7 witness: an unknown tool requested first, and a later request of the
\* same turn invoked.
C7_Witness ==
    \E i, j \in Requests :
        /\ i < j
        /\ ~Registered(th_calls[i].name)
        /\ th_trace[j].branch = "ok"

\* C8: a tool invocation that raises is answered by a ToolResult whose text
\* is an error string naming the tool; every request of the turn still gets
\* its result and the handler returns to call_llm.
C8_ToolExceptionCaught ==
    /\ \A i \in Requests :
          th_trace[i].branch = "error"
          => /\ Len(th_ret.messages) = Len(th_calls)
             /\ th_ret.messages[i].type = "tool"
             /\ th_ret.messages[i].tool_call_id = th_calls[i].id
             /\ th_ret.messages[i].content[1] = "Error executing tool '"
             /\ Mentions(th_ret.messages[i], th_calls[i].name)
    /\ last_node = "tool_handler" => (pc = "call_llm" /\ outcome = "running")

\* C8 witness: a tool invocation raised, a later request of the turn was
\* invoked, and the next step is call_llm.
C8_Witness ==
    /\ last_node = "tool_handler"
    /\ pc = "call_llm"
    /\ \E i, j \in Requests :
          /\ i < j
          /\ th_trace[i].branch = "error"
          /\ th_trace[j].branch = "ok"

\* C9: whenever the classifier fails (raises or gives a malformed result)
\* rerank returns the raw output unchanged, and it always returns.
C9_RerankFallsBack ==
    /\ rr.classifier \in {"raises", "malformed"}
       => rr.result = [kind |-> "raw", raw |-> rr.raw_output, messages |-> <<>>]
    /\ rr.calls > 0 => rr.result.kind \in {"raw", "messages"}

\* C9 witness: the classifier failed on call after call, the last on a raw
\* output of several documents.
C9_Witness ==
    /\ rr.calls = MaxRerankCalls
    /\ rr.classifier = "raises"
    /\ rr.raw_output = "doc A\ndoc B"
    /\ rr.result.raw = "doc A\ndoc B"

\* a model text that cleanup_state takes for an answer
IsAnswer(text) == text # "" /\ strip(text) # "" /\ ~startswith_reasoning(text)

\* Scenario A: a fresh thread, the user sent "Hello", no tool round, and the
\* model gave an answer
ScenarioA ==
    /\ persisted = EmptyDict
    /\ io.sent = "Hello"
    /\ rounds = 0
    /\ IsAnswer(io.answer)

\* C10: in Scenario A cleanup_state keeps exactly [UserTurn("Hello"),
\* AssistantTurn(answer)], and after it the thread is the directive followed
\* by these two messages.
C10_ScenarioA ==
    /\ (pc = "cleanup_state" /\ ScenarioA)
       => LET m == Messages(state)
          IN  /\ Len(m) = 3
              /\ cleanup_state(state).messages = <<m[2], m[3]>>
    /\ (last_node = "cleanup_state" /\ ScenarioA)
       => LET m == Messages(state)
          IN  /\ Len(m) = 3
              /\ m[1].type = "system" /\ Text(m[1]) = DIRECTIVE
              /\ m[2].type = "human" /\ Text(m[2]) = "Hello"
              /\ m[3].type = "ai" /\ Text(m[3]) = io.answer
              /\ m[3].tool_calls = <<>>

\* C10 witness: Scenario A just after cleanup_state.
C10_Witness ==
    /\ last_node = "cleanup_state"
    /\ ScenarioA
    /\ io.answer = "The answer."

\* the largest message id of a history (0 for the empty one)
MaxIdOf(msgs) ==
    IF msgs = <<>> THEN 0
    ELSE CHOOSE n \in {msgs[i].id : i \in 1..Len(msgs)} :
            \A i \in 1..Len(msgs) : msgs[i].id <= n

\* C11: a model invocation that raises ends the exchange as failed, handed
\* to the caller, and the persisted thread stays what the prior exchange
\* left; the persisted thread changes only when an exchange completes.
C11_FailureLeavesPersisted ==
    [][/\ (outcome = "running" /\ outcome' = "failed")
          => /\ persisted' = persisted
             /\ state' = persisted
             /\ pc' = "idle"
       /\ persisted' # persisted => (pc = "end" /\ outcome' = "completed")]_vars

\* C11 witness: an exchange has just failed on a thread that an earlier
\* exchange had completed and persisted, after failed work that had added
\* several messages to the running state.
C11_Witness ==
    /\ outcome = "failed"
    /\ pc = "idle"
    /\ Messages(persisted) # <<>>
    /\ next_id >= MaxIdOf(Messages(persisted)) + 4

\* C12: when every model call returns, the loop makes progress whatever the
\* tools do: tool_handler always hands back to call_llm, a model invocation
\* leads to cleanup_state, and cleanup_state leads to the completed exchange.
C12_LoopProgresses ==
    /\ (pc = "tool_handler") ~> (pc = "call_llm")
    /\ (pc = "call_llm") ~> (pc = "cleanup_state" \/ outcome = "failed")
    /\ (pc = "cleanup_state") ~> (pc = "idle" /\ outcome = "completed")

\* C12 witness: cleanup_state has run after a tool round in which two
\* requests did not end in a tool result (unknown tool, cap or exception).
C12_Witness ==
    /\ last_node = "cleanup_state"
    /\ pc = "end"
    /\ rounds >= 1
    /\ Cardinality({th_trace[i].branch : i \in Requests} \ {"ok"}) >= 2

\* C13: a request whose name differs from a registered tool's name only in
\* letter case resolves to that tool: it is never answered as not found,
\* and the tool is invoked unless the cap of that spelling is reached.
C13_LookupIgnoresCase ==
    \A i \in Requests, k \in 1..Len(tools) :
        (lower(th_calls[i].name) = lower(tools[k]) /\ th_calls[i].name # tools[k])
        => LET e == th_trace[i]
               capped == DictGet(e.before, e.name, 0) >= DefaultMaxCalls
           IN  /\ e.branch \in {"ok", "error", "capped"}
               /\ (e.branch = "capped") = capped
               /\ e.calls = (IF capped THEN 0 ELSE 1)
               /\ th_ret.messages[i].content[1] # "Error: Tool '"

\* C13 witness: a request spelled in capitals was invoked and its result
\* returned.
C13_Witness ==
    \E i \in Requests :
        /\ th_calls[i].name = "SEARCH_AOU_SITE"
        /\ th_trace[i].branch = "ok"
        /\ th_ret.messages[i].content = ToolResultText

\* the ids of the messages of a state
IdsOf(st) == {Messages(st)[i].id : i \in 1..Len(Messages(st))}

\* the ids made for a thread so far
MadeFor(t) == (FirstId(t) + 1)..(FirstId(t) + threads[t].made)

\* C14: the threads are independent: a step taken for one thread leaves the
\* other thread's exchange state, counter and persisted history as they
\* were, and a thread's histories hold only messages made for that thread.
C14_ThreadsIndependent ==
    /\ [][\A t \in ThreadIds :
             (threads'[t] # threads[t] \/ store'[t] # store[t])
             => \A u \in ThreadIds \ {t} :
                   threads'[u] = threads[u] /\ store'[u] = store[u]]_vars
    /\ [](\A t \in ThreadIds :
             /\ IdsOf(threads[t].state) \subseteq MadeFor(t)
             /\ IdsOf(store[t]) \subseteq MadeFor(t))

\* C14 witness: one thread is in its tool loop, with a counter, while the
\* other has a persisted exchange and a new exchange in flight.
C14_Witness ==
    /\ threads["t1"].pc = "call_llm"
    /\ threads["t1"].count # EmptyDict
    /\ Messages(store["t2"]) # <<>>
    /\ threads["t2"].pc \notin {"idle", "end"}

C16_AfterModelInvocation ==
    last_node = "call_llm"
    => LET calls == Last(Messages(state)).tool_calls
       IN  /\ Last(Messages(state)).type = "ai"
           /\ pc \in {"tool_handler", "cleanup_state"}
           /\ (pc = "tool_handler") = (Len(calls) >= 1)
           /\ (pc = "cleanup_state") = (calls = <<>>)

\* C16 witness: after one tool round the model asked for tools again.
C16_Witness ==
    /\ last_node = "call_llm"
    /\ rounds = 1
    /\ pc = "tool_handler"
    /\ Len(Last(Messages(state)).tool_calls) >= 1

\* C17: tool_handler is always followed by call_llm, and by then every
\* request of the turn has its ToolResult in the history: the history ends
\* with the requesting AssistantTurn followed by one ToolResult per request,
\* in request order.
C17_AfterToolDispatch ==
    last_node = "tool_handler"
    => LET msgs == Messages(state)
           n == Len(th_calls)
       IN  /\ pc = "call_llm"
           /\ n >= 1
           /\ Len(msgs) > n
           /\ msgs[Len(msgs) - n].type = "ai"
           /\ msgs[Len(msgs) - n].tool_calls = th_calls
           /\ \A i \in 1..n :
                 /\ msgs[Len(msgs) - n + i].type = "tool"
                 /\ msgs[Len(msgs) - n + i].tool_call_id = th_calls[i].id
                 /\ msgs[Len(msgs) - n + i].content = th_ret.messages[i].content

\* C17 witness: a turn of three requests has been dispatched.
C17_Witness ==
    /\ last_node = "tool_handler"
    /\ pc = "call_llm"
    /\ Len(th_calls) = 3
    /\ CountOfType(Messages(state), "tool") = 3

\* C18: every exchange that completes does so through cleanup_state: when
\* the graph has reached its end, about to persist the thread, the node that
\* ran last is cleanup_state.
C18_CompletesThroughCleanup ==
    pc = "end" => last_node = "cleanup_state"

\* the positions of the messages of a type in a history
PositionsOf(msgs, type) == {i \in 1..Len(msgs) : msgs[i].type = type}

\* C19: cleanup_state keeps the most recent UserTurn: of the user messages
\* of the history, the one in the list it returns is the last in
\* conversation order.
C19_KeepsLastUserTurn ==
    (pc = "cleanup_state" /\ PositionsOf(Messages(state), "human") # {})
    => LET msgs == Messages(state)
           kept == cleanup_state(state).messages
           last == CHOOSE i \in PositionsOf(msgs, "human") :
                      \A j \in PositionsOf(msgs, "human") : j <= i
       IN  /\ CountOfType(kept, "human") = 1
           /\ \E k \in 1..Len(kept) : kept[k] = msgs[last]

\* an AssistantTurn whose text is non-empty after trimming and is no
\* reasoning marker
Qualifies(m) ==
    /\ m.type = "ai"
    /\ strip(Text(m)) # ""
    /\ ~startswith_reasoning(Text(m))

\* C20: the assistant message cleanup_state keeps is the most recent
\* AssistantTurn whose text is non-empty after trimming and is no reasoning
\* marker; a turn with empty text is never kept, and when no turn qualifies
\* no assistant message is kept.
C20_KeepsFinalAssistantTurn ==
    cl.called
    => LET msgs == cl.messages
           hits == {i \in 1..Len(msgs) : Qualifies(msgs[i])}
           ais == SelectSeq(cl.kept, LAMBDA m : m.type = "ai")
       IN  /\ hits = {} => ais = <<>>
           /\ hits # {}
              => ais = <<msgs[CHOOSE i \in hits : \A j \in hits : j <= i]>>
           /\ \A k \in 1..Len(ais) : Text(ais[k]) \notin {"", " "}

\* C20 witness: a history with two answers, the later one followed by a
\* reasoning marker; the later answer is the one kept.
C20_Witness ==
    /\ cl.called
    /\ Len(cl.messages) = 3
    /\ Text(cl.messages[1]) = "The answer."
    /\ Text(cl.messages[2]) = " The answer. "
    /\ Text(cl.messages[3]) = "reasoning: check the site"
    /\ cl.kept = <<cl.messages[2]>>

\* C21: cleanup is idempotent: applied to a thread that has been cleaned,
\* cleanup_state leaves the message history as the first application left
\* it, and the list it returns for the kept messages is that list again.
C21_CleanupIdempotent ==
    cl.called
    => /\ Messages(cl.twice) = Messages(cl.once)
       /\ cleanup_state([messages |-> cl.kept]).messages = cl.kept

\* C21 witness: cleanup applied twice to a history of a tool round, of
\* which it keeps less than the whole.
C21_Witness ==
    /\ cl.called
    /\ Len(cl.messages) = 3
    /\ CountOfType(cl.messages, "tool") = 1
    /\ Len(cl.kept) = 2
    /\ Messages(cl.twice) = Messages(cl.once)

\* C22: the counter counts the invocations: every tool.invoke, whether it
\* returns or raises, raises the count of the requested name by exactly one
\* and leaves the other counts as they were, and nothing else changes it.
C22_CounterCountsInvocations ==
    \A i \in Requests :
        LET e == th_trace[i]
            others == ((DOMAIN e.before) \cup (DOMAIN e.after)) \ {e.name}
        IN  /\ DictGet(e.after, e.name, 0) = DictGet(e.before, e.name, 0) + e.calls
            /\ \A n \in others : DictGet(e.after, n, 0) = DictGet(e.before, n, 0)

\* the name requested by the tool call with this id in a history
RequestNameOf(msgs, call_id) ==
    CHOOSE name \in RequestNames \cup {"none"} :
        \/ \E i \in 1..Len(msgs) : \E k \in 1..Len(msgs[i].tool_calls) :
              msgs[i].tool_calls[k].id = call_id /\ msgs[i].tool_calls[k].name = name
        \/ /\ name = "none"
           /\ \A i \in 1..Len(msgs) : \A k \in 1..Len(msgs[i].tool_calls) :
                 msgs[i].tool_calls[k].id # call_id

\* C23: the counter is local to the exchange: when an exchange starts the
\* state holds no count, and a cap warning in the running exchange is owed
\* to invocations of that exchange alone: at least the cap's number of
\* results for the same name precede it among the messages the exchange
\* has added.
C23_CounterLocalToExchange ==
    LET T == threads["t1"]
        msgs == Messages(T.state)
        old == IdsOf(store["t1"])
        IsNew(i) == msgs[i].type = "tool" /\ msgs[i].id \notin old
        Warned(i) == IsNew(i) /\ msgs[i].content[1] = "Warning: Tool '"
        Done(i, name) == /\ IsNew(i)
                         /\ msgs[i].content = ToolResultText
                         /\ RequestNameOf(msgs, msgs[i].tool_call_id) = name
    IN  /\ T.pc = "inject_directive"
           => DictGet(T.state, "tool_call_count", EmptyDict) = EmptyDict
        /\ \A i \in 1..Len(msgs) :
              Warned(i)
              => Cardinality({j \in 1..(i - 1) : Done(j, msgs[i].content[2])})
                 >= DefaultMaxCalls

\* C23 witness: the first exchange invoked search_aou_site twice and was
\* persisted; in the second exchange the same request has been invoked.
C23_Witness ==
    LET T == threads["t1"]
        msgs == Messages(T.state)
        old == Messages(store["t1"])
    IN  /\ Cardinality({i \in 1..Len(old) :
                           /\ old[i].type = "tool"
                           /\ old[i].content = ToolResultText
                           /\ RequestNameOf(old, old[i].tool_call_id) = "search_aou_site"}) = 2
        /\ T.pc = "call_llm"
        /\ Last(msgs).type = "tool"
        /\ Last(msgs).id \notin IdsOf(store["t1"])
        /\ Last(msgs).content = ToolResultText
        /\ RequestNameOf(msgs, Last(msgs).tool_call_id) = "search_aou_site"

\* a state handed to a node with a counter in it
WithCounter(st) ==
    [k \in (DOMAIN st) \cup {"tool_call_count"} |->
        IF k = "tool_call_count" THEN [search_aou_site |-> 2] ELSE st[k]]

\* the update leaves the counter of the state it was computed from alone
KeepsCounter(upd, st) ==
    "tool_call_count" \in DOMAIN upd
    => upd["tool_call_count"] = DictGet(st, "tool_call_count", EmptyDict)

\* C24: only tool_handler reads and changes the counter: whatever node
\* other than tool_handler is about to run, the update it returns leaves the
\* counter alone and is the same whether or not the state holds a counter.
C24_OnlyDispatcherTouchesCounter ==
    /\ pc = "agent_router"
       => KeepsCounter(state, state) /\ KeepsCounter(WithCounter(state), WithCounter(state))
    /\ pc = "retrieval"
       => \A q_a \in ToolOutcomes, pdf \in ToolOutcomes :
             /\ KeepsCounter(retrieval(state, q_a, pdf), state)
             /\ retrieval(WithCounter(state), q_a, pdf) = retrieval(state, q_a, pdf)
    /\ pc = "call_llm"
       => \A r \in Responses(next_id) :
             /\ KeepsCounter(call_llm(state, r), state)
             /\ call_llm(WithCounter(state), r) = call_llm(state, r)
             /\ should_continue(WithCounter(ApplyUpdate(state, call_llm(state, r))))
                = should_continue(ApplyUpdate(state, call_llm(state, r)))
    /\ pc = "normal_llm"
       => \A text \in AnswerTexts :
             /\ KeepsCounter(normal_llm(state, AIMessage(next_id, text, <<>>)), state)
             /\ normal_llm(WithCounter(state), AIMessage(next_id, text, <<>>))
                = normal_llm(state, AIMessage(next_id, text, <<>>))
    /\ pc = "cleanup_state"
       => /\ KeepsCounter(cleanup_state(state), state)
          /\ KeepsCounter(cleanup_state(WithCounter(state)), WithCounter(state))
          /\ cleanup_state(WithCounter(state)) = cleanup_state(state)
    /\ last_node # "tool_handler"
       => DictGet(state, "tool_call_count", EmptyDict)
          = DictGet(persisted, "tool_call_count", EmptyDict)

\* C24 witness: cleanup_state is about to run after a tool round whose
\* handler returned a count.
C24_Witness ==
    /\ pc = "cleanup_state"
    /\ rounds >= 1
    /\ th_ret.tool_call_count # EmptyDict

\* every tool message of msgs comes after an assistant message of msgs that
\* carries a request with the id the tool message answers
ResultsFollowRequests(msgs) ==
    \A i \in 1..Len(msgs) :
        msgs[i].type = "tool"
        => \E j \in 1..(i - 1) :
              /\ msgs[j].type = "ai"
              /\ \E c \in 1..Len(msgs[j].tool_calls) :
                    msgs[j].tool_calls[c].id = msgs[i].tool_call_id

\* the messages that before and after have in common stand in the same order
SameOrder(before, after) ==
    LET b == [i \in 1..Len(before) |-> before[i].id]
        a == [i \in 1..Len(after) |-> after[i].id]
        InAfter(id) == \E i \in 1..Len(a) : a[i] = id
        InBefore(id) == \E i \in 1..Len(b) : b[i] = id
    IN  SelectSeq(b, InAfter) = SelectSeq(a, InBefore)

\* C25: in the thread at work and in the persisted thread, after cleanup
\* too, every tool result comes after an assistant turn with a request of
\* the same id, and no step changes the order of the messages it keeps.
C25_ResultsFollowRequestsInOrder ==
    /\ [](ResultsFollowRequests(Messages(state))
          /\ ResultsFollowRequests(Messages(persisted)))
    /\ [][/\ SameOrder(Messages(state), Messages(state'))
          /\ SameOrder(Messages(persisted), Messages(persisted'))
          /\ SameOrder(Messages(persisted), Messages(state'))]_vars

\* C25 witness: cleanup_state has run on a thread that holds a tool result.
C25_Witness ==
    /\ last_node = "cleanup_state"
    /\ CountOfType(Messages(state), "tool") >= 1

\* the assistant turns with tool requests made in the exchange in flight
ToolTurns(msgs, old) ==
    {i \in 1..Len(msgs) :
        msgs[i].type = "ai" /\ msgs[i].tool_calls # <<>> /\ msgs[i].id \notin old}

\* the tool turn the model may make next on thread t
NextToolTurn(t, names) ==
    AIMessage(FirstId(t) + threads[t].made + 1, "",
              MakeCalls(names, FirstId(t) + threads[t].made + 1))

\* C26: the loop has no cap of its own: however many tool rounds the
\* exchange has made, a model turn with tool requests is routed to
\* tool_handler, and tool_handler always hands back to call_llm.
C26_NoGlobalCap ==
    /\ [](threads["t1"].pc = "call_llm"
          => \A names \in ToolCallLists :
                should_continue(ApplyUpdate(threads["t1"].state,
                                   call_llm(threads["t1"].state,
                                            NextToolTurn("t1", names))))
                = "tool_handler")
    /\ [][threads["t1"].pc = "tool_handler" => threads'["t1"].pc = "call_llm"]_vars

\* C26 witness: in one exchange two rounds of the loop have each invoked a
\* tool and a third round is about to be dispatched.
C26_Witness ==
    LET T == threads["t1"]
        msgs == Messages(T.state)
        old == IdsOf(store["t1"])
    IN  /\ T.pc = "tool_handler"
        /\ Cardinality(ToolTurns(msgs, old)) >= 3
        /\ Cardinality({i \in 1..Len(msgs) :
                           /\ msgs[i].type = "tool"
                           /\ msgs[i].id \notin old
                           /\ msgs[i].content = ToolResultText}) >= 2

\* the spellings other than name that resolve to the same tool as name
OtherSpellings(name) ==
    {n \in RequestNames : n # name /\ lower(n) = lower(name)}

\* C27: the counter is kept under the name as the request spells it: a
\* request of a registered tool is capped by the count of its own spelling
\* only, and a successful dispatch raises the count of its own spelling and
\* leaves the counts of the other spellings of the same tool as they were.
C27_CounterKeyedBySpelling ==
    \A i \in Requests :
        LET e == th_trace[i] IN
        FindTool(e.name) # "None"
        => /\ (e.branch = "capped") = (DictGet(e.before, e.name, 0) >= DefaultMaxCalls)
           /\ e.branch = "ok"
              => /\ e.after = DictSet(e.before, e.name, DictGet(e.before, e.name, 0) + 1)
                 /\ \A n \in OtherSpellings(e.name) :
                       DictGet(e.after, n, 0) = DictGet(e.before, n, 0)
           /\ e.branch # "ok" => e.after = e.before

\* C27 witness: with the count of search_aou_site at the cap, the same tool
\* requested in capitals was invoked and counted under the capitals.
C27_Witness ==
    \E i \in Requests :
        LET e == th_trace[i] IN
        /\ e.name = "SEARCH_AOU_SITE"
        /\ DictGet(e.before, "search_aou_site", 0) = DefaultMaxCalls
        /\ e.branch = "ok"
        /\ DictGet(e.after, "SEARCH_AOU_SITE", 0) = 1
        /\ DictGet(e.after, "search_aou_site", 0) = DefaultMaxCalls

\* the nodes of the retrieval loop
LoopNodes == {"retrieval", "call_llm", "tool_handler", "cleanup_state"}

\* C28: the router sends the exchange to the retrieval loop exactly when
\* the classification is 'info' and to normal_llm otherwise; normal_llm adds
\* the one response of its one model invocation and the exchange is then
\* complete, no tool having been dispatched and cleanup_state not having run.
C28_RouterSplitsOnInfo ==
    /\ []((pc \in LoopNodes \/ last_node \in LoopNodes) => io.classification = "info")
    /\ []((pc = "normal_llm" \/ last_node = "normal_llm")
          => io.classification \notin {"info", "none"} /\ rounds = 0)
    /\ [][(pc = "agent_router" /\ last_node' = "agent_router")
          => /\ io'.classification \in Classifications
             /\ (pc' = "retrieval") = (io'.classification = "info")
             /\ (pc' = "normal_llm") = (io'.classification # "info")]_vars
    /\ [][(pc = "normal_llm" /\ pc' # "idle")
          => /\ pc' = "end"
             /\ last_node' = "normal_llm"
             /\ Len(Messages(state')) = Len(Messages(state)) + 1
             /\ SubSeq(Messages(state'), 1, Len(Messages(state))) = Messages(state)
             /\ Last(Messages(state')).type = "ai"]_vars
    /\ [][last_node = "normal_llm"
          => pc' = "idle" /\ outcome' = "completed" /\ persisted' = state]_vars

\* C28 witness: an exchange classified 'normal' has gone through normal_llm
\* and is about to be completed, while an earlier exchange of the thread went
\* through the retrieval loop.
C28_Witness ==
    /\ last_node = "normal_llm"
    /\ pc = "end"
    /\ io.classification = "normal"
    /\ CountOfType(Messages(persisted), "tool") >= 1

\* C29: a call_llm step appends the model's response, one message, to the
\* history and changes no message that was there; the model was given the
\* history followed by the system message, which is not in the history
\* afterwards.
C29_CallLLMAddsOnlyResponse ==
    [][(pc = "call_llm" /\ last_node' = "call_llm")
       => /\ Len(Messages(state')) = Len(Messages(state)) + 1
          /\ SubSeq(Messages(state'), 1, Len(Messages(state))) = Messages(state)
          /\ Last(Messages(state')).type = "ai"
          /\ Last(Messages(state')).id \notin IdsOf(state)
          /\ CountOfType(Messages(state'), "system") = CountOfType(Messages(state), "system")
          /\ Len(io'.input) = Len(Messages(state)) + 1
          /\ SubSeq(io'.input, 1, Len(Messages(state))) = Messages(state)
          /\ Last(io'.input).type = "system"
          /\ Last(io'.input).content[1] = state["query"]
          /\ \A i \in 1..Len(Messages(state')) :
                Messages(state')[i] # Last(io'.input)]_vars

\* C29 witness: call_llm has run after a tool round, so its system message
\* held tool results, and the response is the last message of the history.
C29_Witness ==
    /\ last_node = "call_llm"
    /\ rounds >= 1
    /\ Len(Last(io.input).content) > 2 + Len(state["retrieval_result"])
    /\ Last(Messages(state)).type = "ai"

\* what retrieval leaves in the state after a step that completed: the
\* messages as they were and, with a query, the documents of the collections
\* whose query returned
RetrievalCompleted ==
    /\ pc' = "call_llm"
    /\ last_node' = "retrieval"
    /\ Messages(state') = Messages(state)
    /\ IF Text(Last(Messages(state))) = ""
       THEN /\ io'.queried = <<>>
            /\ state'["retrieval_result"] = <<>>
            /\ state'["query"] = ""
       ELSE /\ Len(io'.queried) = 2
            /\ state'["query"] = Text(Last(Messages(state)))
            /\ state'["retrieval_result"]
               = (IF io'.queried[1] = "raises" THEN <<>> ELSE <<"q_a document">>)
                 \o (IF io'.queried[2] = "raises" THEN <<>> ELSE <<"pdf document">>)

====
